---- MODULE Spec2Model ----
(***************************************************************************)
(* MySQL -> MongoDB employee migration.  The repository holds two pipeline *)
(* scripts:                                                                *)
(*   "etl"  : src/pipeline.py               (class ETLPipeline, run())     *)
(*   "main" : src/DB_Migration/pipeline.py  (function main())              *)
(* One behaviour of this module is one process running one of the two      *)
(* scripts against a source database and a destination database.           *)
(***************************************************************************)
EXTENDS Integers, Sequences, FiniteSets, TLC

(***************************************************************************)
(* Bounds of the model.                                                    *)
(***************************************************************************)
\* Largest total number of rows in the six source tables.
MaxRows == 2
\* Employee numbers of employee rows are 1..MaxEmpNo.
MaxEmpNo == 2
\* batch_size of load_collection ranges over 1..MaxBatchSize.
MaxBatchSize == 2
\* Number of pipeline runs against the same destination (SpecRerun).
MaxRuns == 2

(***************************************************************************)
(* Python values.                                                          *)
(***************************************************************************)
None == [kind |-> "none"]

\* datetime.date(y, m, d), what pymysql returns for a DATE column.
DateObj(y, m, d) == [kind |-> "date", ymd |-> <<y, m, d>>]

\* datetime.datetime(y, m, d, 0, 0), what strptime returns.
DateTimeObj(y, m, d) == [kind |-> "datetime", ymd |-> <<y, m, d>>]

\* A str, as its sequence of characters.
Str(chars) == [kind |-> "str", s |-> chars]

IsDateObject(v) == v.kind \in {"date", "datetime"}

\* Python truthiness of a value that is None, a str or a date object.
Truthy(v) ==
    CASE v.kind = "none" -> FALSE
      [] v.kind = "str" -> Len(v.s) > 0
      [] OTHER -> TRUE

Digits == {"0", "1", "2", "3", "4", "5", "6", "7", "8", "9"}

DigitVal(c) ==
    CASE c = "0" -> 0 [] c = "1" -> 1 [] c = "2" -> 2 [] c = "3" -> 3
      [] c = "4" -> 4 [] c = "5" -> 5 [] c = "6" -> 6 [] c = "7" -> 7
      [] c = "8" -> 8 [] c = "9" -> 9

AllDigits(cs) == \A i \in 1..Len(cs) : cs[i] \in Digits

RECURSIVE NumVal(_)
NumVal(cs) ==
    IF Len(cs) = 0 THEN 0
    ELSE 10 * NumVal(SubSeq(cs, 1, Len(cs) - 1)) + DigitVal(cs[Len(cs)])

IsLeap(y) == (y % 4 = 0 /\ y % 100 # 0) \/ y % 400 = 0

DaysInMonth(y, m) ==
    CASE m \in {4, 6, 9, 11} -> 30
      [] m = 2 -> IF IsLeap(y) THEN 29 ELSE 28
      [] OTHER -> 31

\* Position of the first "-" of cs at or after position i, 0 when there is none.
RECURSIVE DashFrom(_, _)
DashFrom(cs, i) ==
    IF i > Len(cs) THEN 0
    ELSE IF cs[i] = "-" THEN i
    ELSE DashFrom(cs, i + 1)

\* The fields %Y, %m, %d of cs under the format '%Y-%m-%d': four digits, a
\* dash, one or two digits, a dash, one or two digits.  <<>> when cs does
\* not have that form.
YmdFields(cs) ==
    IF Len(cs) < 8 \/ Len(cs) > 10 THEN <<>>
    ELSE IF cs[5] # "-" THEN <<>>
    ELSE LET d2 == DashFrom(cs, 6)
         IN IF d2 \notin {7, 8} THEN <<>>
            ELSE LET ys == SubSeq(cs, 1, 4)
                     ms == SubSeq(cs, 6, d2 - 1)
                     ds == SubSeq(cs, d2 + 1, Len(cs))
                 IN IF Len(ds) \in {1, 2} /\ AllDigits(ys) /\ AllDigits(ms) /\ AllDigits(ds)
                    THEN <<NumVal(ys), NumVal(ms), NumVal(ds)>>
                    ELSE <<>>

\* datetime.strptime(v, '%Y-%m-%d') raises (TypeError for a value that is no
\* str, ValueError for a str that is no date).
StrptimeRaises(v) ==
    IF v.kind # "str" THEN TRUE
    ELSE LET f == YmdFields(v.s)
         IN IF f = <<>> THEN TRUE
            ELSE ~(/\ f[1] >= 1
                   /\ f[2] \in 1..12
                   /\ f[3] >= 1
                   /\ f[3] <= DaysInMonth(f[1], f[2]))

\* datetime.strptime(v, '%Y-%m-%d') when it does not raise.
Strptime(v) ==
    LET f == YmdFields(v.s) IN DateTimeObj(f[1], f[2], f[3])

(***************************************************************************)
(* DataTransformer of src/pipeline.py ("etl").                             *)
(***************************************************************************)
\* transform_date logs an error: strptime raised inside the try.
transform_date_logs(date_str) == Truthy(date_str) /\ StrptimeRaises(date_str)

transform_date(date_str) ==
    IF ~Truthy(date_str) THEN None
    ELSE IF StrptimeRaises(date_str) THEN None
    ELSE Strptime(date_str)

etl_transform_employee(employee_row) ==
    [emp_no |-> employee_row.emp_no,
     birth_date |-> transform_date(employee_row.birth_date),
     first_name |-> employee_row.first_name,
     last_name |-> employee_row.last_name,
     gender |-> employee_row.gender,
     hire_date |-> transform_date(employee_row.hire_date),
     titles |-> <<>>,
     salaries |-> <<>>,
     departments |-> <<>>]

transform_title(title_row) ==
    [title |-> title_row.title,
     from_date |-> transform_date(title_row.from_date),
     to_date |-> transform_date(title_row.to_date)]

transform_salary(salary_row) ==
    [salary |-> salary_row.salary,
     from_date |-> transform_date(salary_row.from_date),
     to_date |-> transform_date(salary_row.to_date)]

transform_department_assignment(dept_emp_row) ==
    [dept_no |-> dept_emp_row.dept_no,
     from_date |-> transform_date(dept_emp_row.from_date),
     to_date |-> transform_date(dept_emp_row.to_date)]

transform_department(dept_row) ==
    [dept_no |-> dept_row.dept_no, dept_name |-> dept_row.dept_name]

transform_dept_manager(dept_manager_row) ==
    [emp_no |-> dept_manager_row.emp_no,
     dept_no |-> dept_manager_row.dept_no,
     from_date |-> transform_date(dept_manager_row.from_date),
     to_date |-> transform_date(dept_manager_row.to_date)]

\* self.employees is a dict keyed by emp_no; it is held here as the sequence
\* of its values in the dict's order (the order in which keys were first set).
HasKey(docs, emp_no) == \E i \in 1..Len(docs) : docs[i].emp_no = emp_no

\* self.employees[doc['emp_no']] = doc
DictPut(docs, doc) ==
    IF HasKey(docs, doc.emp_no)
    THEN [i \in 1..Len(docs) |-> IF docs[i].emp_no = doc.emp_no THEN doc ELSE docs[i]]
    ELSE Append(docs, doc)

\* The first loop of ETLPipeline.transform over data['employees'].
RECURSIVE TransformEmployees(_, _)
TransformEmployees(rows, docs) ==
    IF rows = <<>> THEN docs
    ELSE TransformEmployees(Tail(rows), DictPut(docs, etl_transform_employee(Head(rows))))

\* self.employees[emp_no][field].append(item)
AppendTo(docs, emp_no, field, item) ==
    [i \in 1..Len(docs) |->
        IF docs[i].emp_no = emp_no
        THEN [docs[i] EXCEPT ![field] = Append(@, item)]
        ELSE docs[i]]

\* The loops of ETLPipeline.transform over titles, salaries and dept_emp:
\* a row whose emp_no is a key of self.employees is embedded, any other row
\* is logged and left out.
RECURSIVE EmbedTitles(_, _)
EmbedTitles(rows, docs) ==
    IF rows = <<>> THEN docs
    ELSE EmbedTitles(Tail(rows),
            IF HasKey(docs, Head(rows).emp_no)
            THEN AppendTo(docs, Head(rows).emp_no, "titles", transform_title(Head(rows)))
            ELSE docs)

RECURSIVE EmbedSalaries(_, _)
EmbedSalaries(rows, docs) ==
    IF rows = <<>> THEN docs
    ELSE EmbedSalaries(Tail(rows),
            IF HasKey(docs, Head(rows).emp_no)
            THEN AppendTo(docs, Head(rows).emp_no, "salaries", transform_salary(Head(rows)))
            ELSE docs)

RECURSIVE EmbedDeptEmp(_, _)
EmbedDeptEmp(rows, docs) ==
    IF rows = <<>> THEN docs
    ELSE EmbedDeptEmp(Tail(rows),
            IF HasKey(docs, Head(rows).emp_no)
            THEN AppendTo(docs, Head(rows).emp_no, "departments",
                          transform_department_assignment(Head(rows)))
            ELSE docs)

\* ETLPipeline.transform(data): the three lists it returns.
etl_transform(data) ==
    [employees |->
        EmbedDeptEmp(data.dept_emp,
            EmbedSalaries(data.salaries,
                EmbedTitles(data.titles,
                    TransformEmployees(data.employees, <<>>)))),
     departments |-> [i \in 1..Len(data.departments) |-> transform_department(data.departments[i])],
     dept_manager |-> [i \in 1..Len(data.dept_manager) |->
                        transform_dept_manager(data.dept_manager[i])]]

(***************************************************************************)
(* DataTransformer of src/DB_Migration/pipeline.py ("main").               *)
(***************************************************************************)
\* convert_date raises: strptime raised and the except clause re-raises.
convert_date_raises(date_str) == ~IsDateObject(date_str) /\ StrptimeRaises(date_str)

\* convert_date when it does not raise.
convert_date(date_str) ==
    IF IsDateObject(date_str) THEN date_str ELSE Strptime(date_str)

\* departments_lookup = {dept['dept_no']: dept for dept in departments}:
\* the last row of each dept_no stays.
LookupHas(departments, dept_no) ==
    \E i \in 1..Len(departments) : departments[i].dept_no = dept_no

LookupGet(departments, dept_no) ==
    LET last == CHOOSE i \in 1..Len(departments) :
                    /\ departments[i].dept_no = dept_no
                    /\ \A j \in (i + 1)..Len(departments) : departments[j].dept_no # dept_no
    IN departments[last]

\* RowsByEmp without the grouping by emp_no: every row of the table.
AllRows(rows, emp_no) == rows

\* x_by_emp.get(emp_no, []): the rows of emp_no in source order.
RowsByEmp(rows, emp_no) == SelectSeq(rows, LAMBDA r : r.emp_no = emp_no)

\* departments_lookup.get(dept_no, {'dept_no': dept_no, 'dept_name': 'Unknown'})
DepartmentOf(departments, dept_no) ==
    IF LookupHas(departments, dept_no)
    THEN LookupGet(departments, dept_no)
    ELSE [dept_no |-> dept_no, dept_name |-> "Unknown"]

MapDeptEmp(de, departments) ==
    [dept_no |-> DepartmentOf(departments, de.dept_no).dept_no,
     dept_name |-> DepartmentOf(departments, de.dept_no).dept_name,
     from_date |-> convert_date(de.from_date),
     to_date |-> convert_date(de.to_date)]

MapSalary(sal) ==
    [salary |-> sal.salary,
     from_date |-> convert_date(sal.from_date),
     to_date |-> convert_date(sal.to_date)]

MapTitle(tit) ==
    [title |-> tit.title,
     from_date |-> convert_date(tit.from_date),
     to_date |-> IF Truthy(tit.to_date) THEN convert_date(tit.to_date) ELSE None]

MapManagement(mgr) ==
    [dept_no |-> mgr.dept_no,
     from_date |-> convert_date(mgr.from_date),
     to_date |-> convert_date(mgr.to_date)]

\* Some convert_date call of transform_employee raises.
transform_employee_raises(employee, dept_emps, dept_managers, salaries, titles) ==
    \/ convert_date_raises(employee.birth_date)
    \/ convert_date_raises(employee.hire_date)
    \/ \E i \in 1..Len(dept_emps) :
          convert_date_raises(dept_emps[i].from_date) \/ convert_date_raises(dept_emps[i].to_date)
    \/ \E i \in 1..Len(salaries) :
          convert_date_raises(salaries[i].from_date) \/ convert_date_raises(salaries[i].to_date)
    \/ \E i \in 1..Len(titles) :
          \/ convert_date_raises(titles[i].from_date)
          \/ (Truthy(titles[i].to_date) /\ convert_date_raises(titles[i].to_date))
    \/ /\ Len(dept_managers) > 0
       /\ \/ convert_date_raises(dept_managers[1].from_date)
          \/ convert_date_raises(dept_managers[1].to_date)

\* The document transform_employee returns when nothing raises.
transform_employee(employee, dept_emps, dept_managers, salaries, titles, departments_lookup) ==
    [emp_no |-> employee.emp_no,
     birth_date |-> convert_date(employee.birth_date),
     first_name |-> employee.first_name,
     last_name |-> employee.last_name,
     gender |-> employee.gender,
     hire_date |-> convert_date(employee.hire_date),
     departments |-> [i \in 1..Len(dept_emps) |-> MapDeptEmp(dept_emps[i], departments_lookup)],
     salaries |-> [i \in 1..Len(salaries) |-> MapSalary(salaries[i])],
     titles |-> [i \in 1..Len(titles) |-> MapTitle(titles[i])],
     management |-> IF Len(dept_managers) > 0 THEN MapManagement(dept_managers[1]) ELSE None]

(***************************************************************************)
(* The process: its position, its connections, the two databases.          *)
(***************************************************************************)
VARIABLES
    variant,     \* "etl" (src/pipeline.py) or "main" (src/DB_Migration/pipeline.py)
    source,      \* the six MySQL tables, each a sequence of rows
    batch_size,  \* batch_size of load_collection; 0 for "etl", which has none
    pc,          \* position of the process in the script
    mysql,       \* MySQLExtractor.connection: "none", "open" or "closed"
    mongo,       \* the MongoClient of the loader: "none", "open" or "closed"
    data,        \* the tables fetched so far
    qi,          \* index of the next query in QueryOrder
    ti,          \* index of the next employee row in the loop of main()
    docs,        \* the transformed documents, by destination collection
    loadc,       \* collection load_collection is working on
    li,          \* offset i of the batch loop of load_collection
    exc,         \* the exception being propagated, "none" when there is none
    exit,        \* exit status of the process, -1 while it runs
    db,          \* destination collections: sequences of [id, doc]
    db0,         \* content of the destination when the run started
    nextId,      \* next _id the driver hands out
    calls,       \* delete_many / insert_many calls issued in this run
    loads,       \* invocations of the load operations in this run
    log,         \* log records written in this run
    faults,      \* failures the two stores have raised so far
    runs         \* number of the current run

vars == <<variant, source, batch_size, pc, mysql, mongo, data, qi, ti, docs, loadc, li,
          exc, exit, db, db0, nextId, calls, loads, log, faults, runs>>

Tables == {"employees", "titles", "salaries", "dept_emp", "departments", "dept_manager"}

Collections == {"employees", "departments", "dept_manager"}

\* The order in which the script runs its six SELECT * queries.
QueryOrder ==
    IF variant = "etl"
    THEN <<"employees", "titles", "salaries", "dept_emp", "departments", "dept_manager">>
    ELSE <<"employees", "departments", "dept_emp", "dept_manager", "salaries", "titles">>

\* The collections the script loads, in order.
LoadOrder ==
    IF variant = "etl"
    THEN <<"departments", "employees", "dept_manager">>
    ELSE <<"employees", "departments">>

EmptyData ==
    [employees |-> <<>>, titles |-> <<>>, salaries |-> <<>>,
     dept_emp |-> <<>>, departments |-> <<>>, dept_manager |-> <<>>]

EmptyDocs == [employees |-> <<>>, departments |-> <<>>, dept_manager |-> <<>>]

EmptyDb == [employees |-> <<>>, departments |-> <<>>, dept_manager |-> <<>>]

(***************************************************************************)
(* Source tables of the model.                                             *)
(***************************************************************************)
GoodStr == Str(<<"1", "9", "9", "9", "-", "0", "1", "-", "3", "1">>)

BadStr == Str(<<"n", "o", "t", "-", "a", "-", "d", "a", "t", "e">>)

GoodDate == DateObj(1986, 6, 26)

SampleDates == {None, GoodDate, GoodStr, BadStr}

EmployeeRows ==
    {[emp_no |-> e, birth_date |-> b, first_name |-> "Georgi", last_name |-> "Facello",
      gender |-> "M", hire_date |-> GoodDate] : e \in 1..MaxEmpNo, b \in SampleDates}

TitleRows ==
    {[emp_no |-> 1, title |-> "Engineer", from_date |-> GoodDate, to_date |-> t] :
        t \in {None, GoodStr}}

SalaryRows ==
    {[emp_no |-> 1, salary |-> 60117, from_date |-> GoodDate, to_date |-> t] :
        t \in {None, GoodDate, BadStr}}

DeptEmpRows ==
    {[emp_no |-> 1, dept_no |-> d, from_date |-> GoodDate, to_date |-> GoodStr] :
        d \in {"d001", "d009"}}

DepartmentRows == {[dept_no |-> "d001", dept_name |-> "Marketing"]}

DeptManagerRows ==
    {[emp_no |-> 1, dept_no |-> "d001", from_date |-> GoodDate, to_date |-> GoodStr]}

TotalRows(l) ==
    l.employees + l.titles + l.salaries + l.dept_emp + l.departments + l.dept_manager

TableSizes ==
    {l \in [employees : 0..MaxRows, titles : 0..MaxRows, salaries : 0..MaxRows,
            dept_emp : 0..MaxRows, departments : 0..MaxRows, dept_manager : 0..MaxRows] :
        TotalRows(l) <= MaxRows}

Sources ==
    UNION {[employees : [1..l.employees -> EmployeeRows],
            titles : [1..l.titles -> TitleRows],
            salaries : [1..l.salaries -> SalaryRows],
            dept_emp : [1..l.dept_emp -> DeptEmpRows],
            departments : [1..l.departments -> DepartmentRows],
            dept_manager : [1..l.dept_manager -> DeptManagerRows]] : l \in TableSizes}

\* What the destination holds before the first run: nothing, or one document
\* of an earlier migration in every collection.
LegacyDb ==
    [employees |-> <<[id |-> 1, doc |-> [emp_no |-> 0]]>>,
     departments |-> <<[id |-> 2, doc |-> [dept_no |-> "d000", dept_name |-> "Legacy"]]>>,
     dept_manager |-> <<[id |-> 3, doc |-> [emp_no |-> 0, dept_no |-> "d000"]]>>]

PriorDbs == {EmptyDb, LegacyDb}

\* The legacy documents hold one _id per collection.
FirstId == Cardinality(Collections) + 1

\* The state of a process about to call run() / main().  ETLPipeline.__init__
\* has built its MongoDBLoader, whose MongoClient is open; main() has built
\* nothing yet.
ProcessStart ==
    /\ pc = "start"
    /\ mysql = "none"
    /\ mongo = IF variant = "etl" THEN "open" ELSE "none"
    /\ data = EmptyData
    /\ qi = 1
    /\ ti = 1
    /\ docs = EmptyDocs
    /\ loadc = 1
    /\ li = 0
    /\ exc = "none"
    /\ exit = -1
    /\ calls = <<>>
    /\ loads = <<>>
    /\ log = <<>>

Init ==
    /\ variant \in {"etl", "main"}
    /\ source \in Sources
    /\ batch_size \in (IF variant = "main" THEN 1..MaxBatchSize ELSE {0})
    /\ db \in PriorDbs
    /\ db0 = db
    /\ nextId = FirstId
    /\ faults = {}
    /\ runs = 1
    /\ ProcessStart

LogRec(level, msg) == [level |-> level, msg |-> msg, emp |-> 0]

(***************************************************************************)
(* The destination driver: collection.delete_many({}) and                  *)
(* collection.insert_many(batch, ordered=False).                           *)
(***************************************************************************)
\* The ways one insert_many call can end: every document written; a
\* BulkWriteError naming the documents that failed, the others written;
\* any other error (the connection is lost), nothing written.
InsertOutcomes(batch) ==
    {[kind |-> "ok", failed |-> {}]}
    \cup {[kind |-> "bulk", failed |-> F] : F \in (SUBSET (1..Len(batch))) \ {{}}}
    \cup {[kind |-> "error", failed |-> 1..Len(batch)]}

\* The collection after insert_many(batch) in which the documents at the
\* positions in failed were not written.  The driver gives document i of the
\* batch the _id nextId + i - 1.
InsertMany(entries, batch, failed) ==
    entries \o SelectSeq([i \in 1..Len(batch) |-> [id |-> nextId + i - 1, doc |-> batch[i]]],
                         LAMBDA e : (e.id - nextId + 1) \notin failed)

DeleteCall(coll) == [op |-> "delete_many", coll |-> coll, batch |-> <<>>]

InsertCall(coll, batch) == [op |-> "insert_many", coll |-> coll, batch |-> batch]

FaultOf(kind) == IF kind = "bulk" THEN {"BulkWrite"} ELSE IF kind = "error" THEN {"DestWrite"} ELSE {}

(***************************************************************************)
(* src/pipeline.py: ETLPipeline.run().                                     *)
(***************************************************************************)
run ==
    /\ variant = "etl"
    /\ pc = "start"
    /\ pc' = "connect"
    /\ log' = Append(log, LogRec("INFO", "ETL pipeline started."))
    /\ UNCHANGED <<variant, source, batch_size, mysql, mongo, data, qi, ti, docs, loadc, li,
                   exc, exit, db, db0, nextId, calls, loads, faults, runs>>

\* extract(): self.mysql_extractor.connect()
etl_connect ==
    /\ variant = "etl"
    /\ pc = "connect"
    /\ \E ok \in BOOLEAN :
          IF ok
          THEN /\ mysql' = "open"
               /\ pc' = "fetch"
               /\ log' = Append(log, LogRec("INFO", "Connected to MySQL database."))
               /\ UNCHANGED <<exc, faults>>
          ELSE /\ mysql' = mysql
               /\ pc' = "extract_finally"
               /\ exc' = "ConnectionError"
               /\ faults' = faults \cup {"SourceConnect"}
               /\ log' = log \o <<LogRec("ERROR", "Error connecting to MySQL"),
                                  LogRec("ERROR", "Error during extraction")>>
    /\ UNCHANGED <<variant, source, batch_size, mongo, data, qi, ti, docs, loadc, li,
                   exit, db, db0, nextId, calls, loads, runs>>

\* extract(): one self.mysql_extractor.fetch_data(query)
fetch_data ==
    /\ variant = "etl"
    /\ pc = "fetch"
    /\ \E ok \in BOOLEAN :
          IF ok
          THEN /\ data' = [data EXCEPT ![QueryOrder[qi]] = source[QueryOrder[qi]]]
               /\ qi' = qi + 1
               /\ pc' = IF qi = Len(QueryOrder) THEN "extract_finally" ELSE "fetch"
               /\ log' = Append(log, LogRec("INFO", "Executed query"))
               /\ UNCHANGED <<exc, faults>>
          ELSE /\ pc' = "extract_finally"
               /\ exc' = "QueryError"
               /\ faults' = faults \cup {"SourceQuery"}
               /\ log' = log \o <<LogRec("ERROR", "Error executing query"),
                                  LogRec("ERROR", "Error during extraction")>>
               /\ UNCHANGED <<data, qi>>
    /\ UNCHANGED <<variant, source, batch_size, mysql, mongo, ti, docs, loadc, li,
                   exit, db, db0, nextId, calls, loads, runs>>

\* extract(): finally: self.mysql_extractor.close(); then the return or the raise.
extract_finally ==
    /\ variant = "etl"
    /\ pc = "extract_finally"
    /\ mysql' = IF mysql = "open" THEN "closed" ELSE mysql
    /\ log' = IF mysql = "open" THEN Append(log, LogRec("INFO", "Closed MySQL connection.")) ELSE log
    /\ pc' = IF exc = "none" THEN "transform" ELSE "except"
    /\ UNCHANGED <<variant, source, batch_size, mongo, data, qi, ti, docs, loadc, li,
                   exc, exit, db, db0, nextId, calls, loads, faults, runs>>

\* transform(extracted_data)
transform ==
    /\ variant = "etl"
    /\ pc = "transform"
    /\ docs' = etl_transform(data)
    /\ pc' = "load"
    /\ loadc' = 1
    /\ UNCHANGED <<variant, source, batch_size, mysql, mongo, data, qi, ti, li,
                   exc, exit, db, db0, nextId, calls, loads, log, faults, runs>>

\* One of insert_departments, insert_employees, insert_dept_managers: the
\* early return on an empty list, else one insert_many of the whole list;
\* both except clauses log and return.
etl_insert(coll) ==
    /\ variant = "etl"
    /\ pc = "load"
    /\ LoadOrder[loadc] = coll
    /\ loads' = Append(loads, [coll |-> coll, documents |-> docs[coll], batch_size |-> 0])
    /\ IF docs[coll] = <<>>
       THEN /\ log' = Append(log, LogRec("WARNING", "No records to insert."))
            /\ UNCHANGED <<db, nextId, calls, faults>>
       ELSE \E o \in InsertOutcomes(docs[coll]) :
               /\ db' = [db EXCEPT ![coll] = InsertMany(@, docs[coll], o.failed)]
               /\ nextId' = nextId + Len(docs[coll])
               /\ calls' = Append(calls, InsertCall(coll, docs[coll]))
               /\ faults' = faults \cup FaultOf(o.kind)
               /\ log' = Append(log,
                     CASE o.kind = "ok" -> LogRec("INFO", "Inserted records.")
                       [] o.kind = "bulk" -> LogRec("ERROR", "Bulk write error inserting")
                       [] OTHER -> LogRec("ERROR", "Error inserting"))
    /\ loadc' = loadc + 1
    /\ pc' = IF loadc = Len(LoadOrder) THEN "load_finally" ELSE "load"
    /\ UNCHANGED <<variant, source, batch_size, mysql, mongo, data, qi, ti, docs, li,
                   exc, exit, db0, runs>>

insert_departments == etl_insert("departments")

insert_employees == etl_insert("employees")

insert_dept_managers == etl_insert("dept_manager")

\* load(): finally: self.mongodb_loader.close(); run() then logs the success
\* and returns, and the process ends with status 0.
load_finally ==
    /\ variant = "etl"
    /\ pc = "load_finally"
    /\ mongo' = "closed"
    /\ log' = log \o <<LogRec("INFO", "Closed MongoDB connection."),
                       LogRec("INFO", "ETL pipeline completed successfully.")>>
    /\ pc' = "exited"
    /\ exit' = 0
    /\ UNCHANGED <<variant, source, batch_size, mysql, data, qi, ti, docs, loadc, li,
                   exc, db, db0, nextId, calls, loads, faults, runs>>

\* run(): except Exception: logger.error(...); sys.exit(1)
run_except ==
    /\ variant = "etl"
    /\ pc = "except"
    /\ log' = Append(log, LogRec("ERROR", "ETL pipeline failed"))
    /\ pc' = "exited"
    /\ exit' = 1
    /\ UNCHANGED <<variant, source, batch_size, mysql, mongo, data, qi, ti, docs, loadc, li,
                   exc, db, db0, nextId, calls, loads, faults, runs>>

(***************************************************************************)
(* src/DB_Migration/pipeline.py: main().                                   *)
(***************************************************************************)
\* main(): extractor = MySQLExtractor(...)
main ==
    /\ variant = "main"
    /\ pc = "start"
    /\ pc' = "connect"
    /\ UNCHANGED <<variant, source, batch_size, mysql, mongo, data, qi, ti, docs, loadc, li,
                   exc, exit, db, db0, nextId, calls, loads, log, faults, runs>>

\* extractor.connect()
connect ==
    /\ variant = "main"
    /\ pc = "connect"
    /\ \E ok \in BOOLEAN :
          IF ok
          THEN /\ mysql' = "open"
               /\ pc' = "extract"
               /\ log' = Append(log, LogRec("INFO", "MySQL connection established"))
               /\ UNCHANGED <<exc, faults>>
          ELSE /\ mysql' = mysql
               /\ pc' = "except"
               /\ exc' = "ConnectionError"
               /\ faults' = faults \cup {"SourceConnect"}
               /\ log' = Append(log, LogRec("ERROR", "Error connecting to MySQL"))
    /\ UNCHANGED <<variant, source, batch_size, mongo, data, qi, ti, docs, loadc, li,
                   exit, db, db0, nextId, calls, loads, runs>>

\* One extractor.extract(queries[...]).  After the sixth, main() builds
\* departments_lookup and the four x_by_emp indexes.
extract ==
    /\ variant = "main"
    /\ pc = "extract"
    /\ \E ok \in BOOLEAN :
          IF ok
          THEN /\ data' = [data EXCEPT ![QueryOrder[qi]] = source[QueryOrder[qi]]]
               /\ qi' = qi + 1
               /\ pc' = IF qi = Len(QueryOrder) THEN "index" ELSE "extract"
               /\ UNCHANGED <<exc, faults, log>>
          ELSE /\ pc' = "except"
               /\ exc' = "QueryError"
               /\ faults' = faults \cup {"SourceQuery"}
               /\ log' = Append(log, LogRec("ERROR", "Error executing query"))
               /\ UNCHANGED <<data, qi>>
    /\ UNCHANGED <<variant, source, batch_size, mysql, mongo, ti, docs, loadc, li,
                   exit, db, db0, nextId, calls, loads, runs>>

\* The lookup and the indexes are functions of the fetched tables
\* (DepartmentOf, RowsByEmp); building them moves the process on to the
\* loop over employees.  departments is loaded as fetched.
build_indexes ==
    /\ variant = "main"
    /\ pc = "index"
    /\ docs' = [docs EXCEPT !.departments = data.departments]
    /\ ti' = 1
    /\ pc' = IF data.employees = <<>> THEN "loader_init" ELSE "transform"
    /\ UNCHANGED <<variant, source, batch_size, mysql, mongo, data, qi, loadc, li,
                   exc, exit, db, db0, nextId, calls, loads, log, faults, runs>>

\* skip_employee with the exception raised again: it reaches the handler of
\* main().
reraise_employee(i, n) == [pc |-> "except", ti |-> i, exc |-> "Exception"]

\* skip_employee with the loop left at the first failure.
break_at_employee(i, n) == [pc |-> "loader_init", ti |-> n + 1, exc |-> "none"]

\* The except clause of the loop over employees: it logs and the loop goes
\* on with the next employee.  i is the index of the employee that failed,
\* n the number of employees.
skip_employee(i, n) ==
    [pc |-> IF i = n THEN "loader_init" ELSE "transform", ti |-> i + 1, exc |-> "none"]

\* One turn of the loop "for emp in employees" of main().
transform_loop ==
    /\ variant = "main"
    /\ pc = "transform"
    /\ LET emp == data.employees[ti]
           emp_dept_emps == RowsByEmp(data.dept_emp, emp.emp_no)
           emp_dept_managers == RowsByEmp(data.dept_manager, emp.emp_no)
           emp_salaries == RowsByEmp(data.salaries, emp.emp_no)
           emp_titles == RowsByEmp(data.titles, emp.emp_no)
           n == Len(data.employees)
       IN IF transform_employee_raises(emp, emp_dept_emps, emp_dept_managers,
                                       emp_salaries, emp_titles)
          THEN /\ log' = log \o
                     <<LogRec("ERROR", "Date conversion error"),
                       [level |-> "ERROR", msg |-> "Error transforming employee", emp |-> emp.emp_no],
                       [level |-> "ERROR", msg |-> "Skipping employee", emp |-> emp.emp_no]>>
               /\ pc' = skip_employee(ti, n).pc
               /\ ti' = skip_employee(ti, n).ti
               /\ exc' = skip_employee(ti, n).exc
               /\ docs' = docs
          ELSE /\ docs' = [docs EXCEPT !.employees =
                              Append(@, transform_employee(emp, emp_dept_emps, emp_dept_managers,
                                                           emp_salaries, emp_titles,
                                                           data.departments))]
               /\ pc' = IF ti = n THEN "loader_init" ELSE "transform"
               /\ ti' = ti + 1
               /\ UNCHANGED <<log, exc>>
    /\ UNCHANGED <<variant, source, batch_size, mysql, mongo, data, qi, loadc, li,
                   exit, db, db0, nextId, calls, loads, faults, runs>>

\* loader = MongoLoader(uri=..., db_name=...)
MongoLoader_init ==
    /\ variant = "main"
    /\ pc = "loader_init"
    /\ \E ok \in BOOLEAN :
          IF ok
          THEN /\ mongo' = "open"
               /\ pc' = "delete_many"
               /\ loadc' = 1
               /\ log' = Append(log, LogRec("INFO", "Connected to MongoDB"))
               /\ UNCHANGED <<exc, faults>>
          ELSE /\ pc' = "except"
               /\ exc' = "ConnectionError"
               /\ faults' = faults \cup {"DestConnect"}
               /\ log' = Append(log, LogRec("ERROR", "Error connecting to MongoDB"))
               /\ UNCHANGED <<mongo, loadc>>
    /\ UNCHANGED <<variant, source, batch_size, mysql, data, qi, ti, docs, li,
                   exit, db, db0, nextId, calls, loads, runs>>

\* Batch with a slice one document too long: documents[i:i+batch_size+1]
BatchTooLong(documents, i, size) ==
    SubSeq(documents, i + 1,
           IF i + size + 1 < Len(documents) THEN i + size + 1 ELSE Len(documents))

\* documents[i:i+batch_size]
Batch(documents, i, size) ==
    SubSeq(documents, i + 1, IF i + size < Len(documents) THEN i + size ELSE Len(documents))

\* load_collection returns: main() calls it for the next collection, or logs
\* the success and reaches its finally clause.
AfterLoad ==
    IF loadc = Len(LoadOrder)
    THEN /\ pc' = "finally"
         /\ loadc' = loadc
    ELSE /\ pc' = "delete_many"
         /\ loadc' = loadc + 1

\* load_collection(collection_name, documents): collection.delete_many({}),
\* then "if documents:".
load_collection_delete ==
    /\ variant = "main"
    /\ pc = "delete_many"
    /\ LET coll == LoadOrder[loadc]
           documents == docs[coll]
       IN /\ loads' = Append(loads, [coll |-> coll, documents |-> documents,
                                     batch_size |-> batch_size])
          /\ calls' = Append(calls, DeleteCall(coll))
          /\ \E ok \in BOOLEAN :
                IF ok
                THEN /\ db' = [db EXCEPT ![coll] = <<>>]
                     /\ li' = 0
                     /\ IF documents # <<>>
                        THEN /\ pc' = "insert_many"
                             /\ UNCHANGED <<loadc, log>>
                        ELSE /\ AfterLoad
                             /\ log' = IF loadc = Len(LoadOrder)
                                       THEN Append(log, LogRec("INFO", "ETL pipeline executed successfully"))
                                       ELSE log
                     /\ UNCHANGED <<exc, faults>>
                ELSE /\ pc' = "except"
                     /\ exc' = "WriteError"
                     /\ faults' = faults \cup {"DestWrite"}
                     /\ log' = Append(log, LogRec("ERROR", "Error loading documents into collection"))
                     /\ UNCHANGED <<db, li, loadc>>
    /\ UNCHANGED <<variant, source, batch_size, mysql, mongo, data, qi, ti, docs,
                   exit, db0, nextId, runs>>

\* load_collection: one turn of the batch loop, collection.insert_many(batch,
\* ordered=False).  Both except clauses log and re-raise.
load_collection_insert ==
    /\ variant = "main"
    /\ pc = "insert_many"
    /\ LET coll == LoadOrder[loadc]
           documents == docs[coll]
           batch == Batch(documents, li, batch_size)
       IN \E o \in InsertOutcomes(batch) :
             /\ db' = [db EXCEPT ![coll] = InsertMany(@, batch, o.failed)]
             /\ nextId' = nextId + Len(batch)
             /\ calls' = Append(calls, InsertCall(coll, batch))
             /\ faults' = faults \cup FaultOf(o.kind)
             /\ IF o.kind = "ok"
                THEN /\ li' = li + batch_size
                     /\ exc' = exc
                     /\ IF li + batch_size < Len(documents)
                        THEN /\ pc' = "insert_many"
                             /\ UNCHANGED <<loadc, log>>
                        ELSE /\ AfterLoad
                             /\ log' = log \o <<LogRec("INFO", "Loaded documents into collection")>>
                                       \o (IF loadc = Len(LoadOrder)
                                           THEN <<LogRec("INFO", "ETL pipeline executed successfully")>>
                                           ELSE <<>>)
                ELSE /\ pc' = "except"
                     /\ exc' = IF o.kind = "bulk" THEN "BulkWriteError" ELSE "WriteError"
                     /\ log' = Append(log,
                                  IF o.kind = "bulk"
                                  THEN LogRec("ERROR", "Bulk write error")
                                  ELSE LogRec("ERROR", "Error loading documents into collection"))
                     /\ UNCHANGED <<li, loadc>>
    /\ UNCHANGED <<variant, source, batch_size, mysql, mongo, data, qi, ti, docs,
                   exit, db0, loads, runs>>

\* main(): except Exception as e: logging.error('ETL pipeline failed: %s', e)
main_except ==
    /\ variant = "main"
    /\ pc = "except"
    /\ log' = Append(log, LogRec("ERROR", "ETL pipeline failed"))
    /\ pc' = "finally"
    /\ UNCHANGED <<variant, source, batch_size, mysql, mongo, data, qi, ti, docs, loadc, li,
                   exc, exit, db, db0, nextId, calls, loads, faults, runs>>

\* main(): finally: extractor.close(); main() returns and the process ends
\* with status 0.
main_finally ==
    /\ variant = "main"
    /\ pc = "finally"
    /\ mysql' = IF mysql = "open" THEN "closed" ELSE mysql
    /\ log' = IF mysql = "open" THEN Append(log, LogRec("INFO", "MySQL connection closed")) ELSE log
    /\ pc' = "exited"
    /\ exit' = 0
    /\ UNCHANGED <<variant, source, batch_size, mongo, data, qi, ti, docs, loadc, li,
                   exc, db, db0, nextId, calls, loads, faults, runs>>

(***************************************************************************)
(* A second run of the same script over the unchanged source: a new        *)
(* process, the destination as the run before left it.                     *)
(***************************************************************************)
Rerun ==
    /\ pc = "exited"
    /\ runs < MaxRuns
    /\ runs' = runs + 1
    /\ db0' = db
    /\ pc' = "start"
    /\ mysql' = "none"
    /\ mongo' = IF variant = "etl" THEN "open" ELSE "none"
    /\ data' = EmptyData
    /\ qi' = 1
    /\ ti' = 1
    /\ docs' = EmptyDocs
    /\ loadc' = 1
    /\ li' = 0
    /\ exc' = "none"
    /\ exit' = -1
    /\ calls' = <<>>
    /\ loads' = <<>>
    /\ log' = <<>>
    /\ UNCHANGED <<variant, source, batch_size, db, nextId, faults>>

Next ==
    \/ run
    \/ etl_connect
    \/ fetch_data
    \/ extract_finally
    \/ transform
    \/ insert_departments
    \/ insert_employees
    \/ insert_dept_managers
    \/ load_finally
    \/ run_except
    \/ main
    \/ connect
    \/ extract
    \/ build_indexes
    \/ transform_loop
    \/ MongoLoader_init
    \/ load_collection_delete
    \/ load_collection_insert
    \/ main_except
    \/ main_finally

Spec == Init /\ [][Next]_vars

NextRerun == Next \/ Rerun

SpecRerun == Init /\ [][NextRerun]_vars

(***************************************************************************)
(* The orchestrator's state, read off the position of the process.         *)
(***************************************************************************)
\* An exception has reached the handler of run() / main().
Failed == pc = "except" \/ (pc \in {"finally", "exited"} /\ exc # "none")

State ==
    CASE pc = "start" -> "INIT"
      [] pc \in {"connect", "fetch", "extract", "extract_finally"} -> "EXTRACTING"
      [] pc = "index" -> "INDEXING"
      [] pc = "transform" -> "TRANSFORMING"
      [] pc \in {"load", "load_finally", "loader_init", "delete_many", "insert_many"} -> "LOADING"
      [] Failed -> "FAILED"
      [] OTHER -> "DONE"

Rank(st) ==
    CASE st = "INIT" -> 0
      [] st = "EXTRACTING" -> 1
      [] st = "INDEXING" -> 2
      [] st = "TRANSFORMING" -> 3
      [] st = "LOADING" -> 4
      [] st = "DONE" -> 5
      [] OTHER -> 6

\* The transformation step of the run is over.
TransformDone ==
    IF variant = "etl"
    THEN pc \in {"load", "load_finally"} \/ (pc = "exited" /\ exc = "none")
    ELSE qi > Len(QueryOrder) /\ pc \notin {"index", "transform"}

\* The failures after which the run cannot go on.
FatalFaults == {"SourceConnect", "SourceQuery", "DestConnect", "DestWrite"}

\* The insert_many calls of this run on collection coll, in order.
InsertsOn(coll) == SelectSeq(calls, LAMBDA c : c.op = "insert_many" /\ c.coll = coll)

RECURSIVE ConcatBatches(_)
ConcatBatches(cs) == IF cs = <<>> THEN <<>> ELSE Head(cs).batch \o ConcatBatches(Tail(cs))

\* The documents of a collection, without their _id.
Contents(entries) == [i \in 1..Len(entries) |-> entries[i].doc]

Ids(entries) == {entries[i].id : i \in 1..Len(entries)}

(***************************************************************************)
(* C1                                                                      *)
(***************************************************************************)
\* C1: when the process has exited, on whatever path, neither the source
\* connection nor the destination connection is still open.
C1_ConnectionsClosedOnExit ==
    pc = "exited" => (mysql # "open" /\ mongo # "open")

(***************************************************************************)
(* C2                                                                      *)
(***************************************************************************)
\* C2: a run in which the only failures were bulk write errors does not end
\* FAILED, and every batch of every collection of the run was handed to
\* insert_many.
C2_BulkWriteErrorDoesNotEscalate ==
    (pc = "exited" /\ faults = {"BulkWrite"}) =>
        /\ ~Failed
        /\ \A k \in 1..Len(LoadOrder) :
              ConcatBatches(InsertsOn(LoadOrder[k])) = docs[LoadOrder[k]]

(***************************************************************************)
(* C3                                                                      *)
(***************************************************************************)
\* C3: a run that met a fatal failure of the source or of the destination
\* exits with a non-zero status and with both connections released; a run
\* that met none exits with status 0.
C3_ExitStatus ==
    pc = "exited" =>
        IF faults \cap FatalFaults # {}
        THEN exit # 0 /\ mysql # "open" /\ mongo # "open"
        ELSE exit = 0

(***************************************************************************)
(* C4                                                                      *)
(***************************************************************************)
\* One step of the orchestrator, as C4 allows it.
C4_Step ==
    /\ State = "FAILED" => State' = "FAILED"
    /\ (State # "FAILED" /\ State' = "FAILED") => State \in {"EXTRACTING", "LOADING"}
    /\ (State # "FAILED" /\ State' # "FAILED") => Rank(State) <= Rank(State')
    /\ State = "TRANSFORMING" => (State' # "FAILED" /\ exit' = exit)

\* C4: every step keeps the orchestrator's state or moves it forward along
\* INIT, EXTRACTING, INDEXING, TRANSFORMING, LOADING, DONE; FAILED is never
\* left and is entered only from EXTRACTING or LOADING; a step taken while
\* TRANSFORMING neither enters FAILED nor changes the exit status.
C4_StateMachine == [][C4_Step]_vars

\* A run of main() that skipped an employee whose transformation raised and
\* still ended DONE with status 0.
C4_Witness ==
    /\ pc = "exited"
    /\ State = "DONE"
    /\ exit = 0
    /\ \E i \in 1..Len(log) : log[i].msg = "Skipping employee"

(***************************************************************************)
(* C5                                                                      *)
(***************************************************************************)
\* C5: an insert_many on a collection is preceded, in the same load, by a
\* delete_many on that collection, and once it is issued the collection
\* holds none of the documents it held when the run started.
C5_DeleteBeforeInsert ==
    \A i \in 1..Len(calls) :
        calls[i].op = "insert_many" =>
            /\ \E j \in 1..(i - 1) : calls[j] = DeleteCall(calls[i].coll)
            /\ Ids(db[calls[i].coll]) \cap Ids(db0[calls[i].coll]) = {}

(***************************************************************************)
(* C6                                                                      *)
(***************************************************************************)
\* C6: a load called with an empty document sequence issues no delete_many
\* and no insert_many on its collection, whose content stays as it was.
C6_EmptyLoadTouchesNothing ==
    \A k \in 1..Len(loads) :
        loads[k].documents = <<>> =>
            /\ \A i \in 1..Len(calls) : calls[i].coll # loads[k].coll
            /\ db[loads[k].coll] = db0[loads[k].coll]

(***************************************************************************)
(* C7                                                                      *)
(***************************************************************************)
\* C7: when a second run over the unchanged source has exited and no store
\* raised a failure in either run, every destination collection holds the
\* documents it held after the first run, none of them twice.
C7_ReloadIdempotent ==
    (runs = 2 /\ pc = "exited" /\ faults = {}) =>
        \A c \in Collections : Contents(db[c]) = Contents(db0[c])

(***************************************************************************)
(* C8                                                                      *)
(***************************************************************************)
CeilDiv(a, b) == (a + b - 1) \div b

Min(a, b) == IF a < b THEN a ELSE b

\* Load k of this run was done by load_collection and has returned normally.
LoadReturned(k) ==
    /\ loads[k].batch_size >= 1
    /\ \/ k < Len(loads)
       \/ pc \in {"finally", "exited"} /\ exc = "none"

\* C8: a load_collection call of D documents with batch size B that has
\* returned issued exactly ceil(D/B) insert_many calls, the j-th with the
\* documents (j-1)*B+1 .. min(j*B, D) of the input, so that every batch has
\* at most B documents and the batches together are the input, in order.
C8_BatchPartition ==
    \A k \in 1..Len(loads) :
        LoadReturned(k) =>
            LET D == Len(loads[k].documents)
                B == loads[k].batch_size
                ins == InsertsOn(loads[k].coll)
            IN /\ Len(ins) = CeilDiv(D, B)
               /\ \A j \in 1..Len(ins) :
                     /\ Len(ins[j].batch) <= B
                     /\ Len(ins[j].batch) >= 1
                     /\ ins[j].batch = SubSeq(loads[k].documents, (j - 1) * B + 1, Min(j * B, D))
               /\ ConcatBatches(ins) = loads[k].documents

\* A load of more documents than the batch size has returned.
C8_Witness ==
    \E k \in 1..Len(loads) :
        /\ LoadReturned(k)
        /\ Len(loads[k].documents) > loads[k].batch_size
        /\ Len(InsertsOn(loads[k].coll)) >= 2

(***************************************************************************)
(* C9                                                                      *)
(***************************************************************************)
\* A str that is not a date in the form YYYY-MM-DD.
Malformed(v) == v.kind = "str" /\ StrptimeRaises(v)

\* The dates main() converts for employee row r: its own, those of its
\* department, salary and title rows, and those of its first management row.
DatesOf(r) ==
    {r.birth_date, r.hire_date}
    \cup UNION {{c.from_date, c.to_date} :
            c \in {data.dept_emp[i] : i \in {j \in 1..Len(data.dept_emp) : data.dept_emp[j].emp_no = r.emp_no}}}
    \cup UNION {{c.from_date, c.to_date} :
            c \in {data.salaries[i] : i \in {j \in 1..Len(data.salaries) : data.salaries[j].emp_no = r.emp_no}}}
    \cup UNION {{c.from_date, c.to_date} :
            c \in {data.titles[i] : i \in {j \in 1..Len(data.titles) : data.titles[j].emp_no = r.emp_no}}}
    \cup (LET m == RowsByEmp(data.dept_manager, r.emp_no)
          IN IF m = <<>> THEN {} ELSE {m[1].from_date, m[1].to_date})

\* Mapping employee row r fails in main().
MappingFails(r) ==
    transform_employee_raises(r, RowsByEmp(data.dept_emp, r.emp_no),
                              RowsByEmp(data.dept_manager, r.emp_no),
                              RowsByEmp(data.salaries, r.emp_no),
                              RowsByEmp(data.titles, r.emp_no))

\* Number of employee rows the transformation has gone through.
Processed ==
    IF variant = "main" /\ pc = "transform" THEN ti - 1
    ELSE IF TransformDone THEN Len(data.employees)
    ELSE 0

EmpNos(rows) == [i \in 1..Len(rows) |-> rows[i].emp_no]

\* C9: of the employee rows gone through so far, those whose mapping failed
\* have no document in the output and have an error logged under their
\* emp_no, a row with a malformed date that does not fail is in the output,
\* and the output holds the documents of all the other rows, one each, in
\* source order.  (In "etl" no mapping fails and every emp_no has a document.)
C9_FailedEmployeeSkipped ==
    LET done == SubSeq(data.employees, 1, Processed)
    IN IF variant = "main"
       THEN /\ EmpNos(docs.employees) = EmpNos(SelectSeq(done, LAMBDA r : ~MappingFails(r)))
            /\ \A i \in 1..Len(done) :
                  (MappingFails(done[i]) /\ \E v \in DatesOf(done[i]) : Malformed(v)) =>
                      \E l \in 1..Len(log) :
                          /\ log[l].level = "ERROR"
                          /\ log[l].msg = "Skipping employee"
                          /\ log[l].emp = done[i].emp_no
       ELSE \A i \in 1..Len(done) : HasKey(docs.employees, done[i].emp_no)

\* main() has gone through two employees: the first had a malformed
\* birth_date and was skipped, the second is in the output.
C9_Witness ==
    /\ variant = "main"
    /\ TransformDone
    /\ Len(data.employees) = 2
    /\ Malformed(data.employees[1].birth_date)
    /\ MappingFails(data.employees[1])
    /\ ~MappingFails(data.employees[2])
    /\ data.employees[1].emp_no # data.employees[2].emp_no
    /\ EmpNos(docs.employees) = <<data.employees[2].emp_no>>

(***************************************************************************)
(* C10                                                                     *)
(***************************************************************************)
\* What date normalization is to return for v: v itself for a date object,
\* the parsed date for the string 1999-01-31, null for null.
Normalized(v) ==
    CASE IsDateObject(v) -> v
      [] v = GoodStr -> DateTimeObj(1999, 1, 31)
      [] OTHER -> None

\* Employee row i is the only row of its emp_no and none of the dates of it
\* and of its child rows is malformed.
PlainEmployee(i) ==
    /\ \A j \in 1..Len(data.employees) :
          j # i => data.employees[j].emp_no # data.employees[i].emp_no
    /\ \A v \in DatesOf(data.employees[i]) : ~Malformed(v)

\* C10: once the transformation is over, every employee row with no
\* malformed date has its document in the output; the dates of the document
\* are the normalized dates of the row; and it embeds one record per salary
\* row and per title row, whose to_date is the normalized to_date of the row
\* (null for null).
C10_DateNormalization ==
    TransformDone =>
        \A i \in 1..Len(data.employees) :
            PlainEmployee(i) =>
                LET r == data.employees[i]
                    sal == RowsByEmp(data.salaries, r.emp_no)
                    tit == RowsByEmp(data.titles, r.emp_no)
                IN \E d \in 1..Len(docs.employees) :
                      /\ docs.employees[d].emp_no = r.emp_no
                      /\ docs.employees[d].birth_date = Normalized(r.birth_date)
                      /\ docs.employees[d].hire_date = Normalized(r.hire_date)
                      /\ Len(docs.employees[d].salaries) = Len(sal)
                      /\ \A j \in 1..Len(sal) :
                            docs.employees[d].salaries[j].to_date = Normalized(sal[j].to_date)
                      /\ Len(docs.employees[d].titles) = Len(tit)
                      /\ \A j \in 1..Len(tit) :
                            docs.employees[d].titles[j].to_date = Normalized(tit[j].to_date)

(***************************************************************************)
(* Source tables with more rows, for the shape of the documents: employee  *)
(* rows that share an emp_no and differ in first_name, child and           *)
(* management rows of every emp_no, two management departments.  Every     *)
(* date is a YYYY-MM-DD string, which both scripts convert.                *)
(***************************************************************************)
MaxDataRows == 3

DataEmployeeRows ==
    {[emp_no |-> e, birth_date |-> GoodStr, first_name |-> f, last_name |-> "Facello",
      gender |-> "M", hire_date |-> GoodStr] : e \in 1..MaxEmpNo, f \in {"Georgi", "Bezalel"}}

DataTitleRows ==
    {[emp_no |-> e, title |-> "Engineer", from_date |-> GoodStr, to_date |-> GoodStr] :
        e \in 1..MaxEmpNo}

DataSalaryRows ==
    {[emp_no |-> e, salary |-> 60117, from_date |-> GoodStr, to_date |-> GoodStr] :
        e \in 1..MaxEmpNo}

DataDeptEmpRows ==
    {[emp_no |-> e, dept_no |-> d, from_date |-> GoodStr, to_date |-> GoodStr] :
        e \in 1..MaxEmpNo, d \in {"d001", "d009"}}

DataDeptManagerRows ==
    {[emp_no |-> e, dept_no |-> d, from_date |-> GoodStr, to_date |-> GoodStr] :
        e \in 1..MaxEmpNo, d \in {"d001", "d002"}}

DataTableSizes ==
    {l \in [employees : 0..MaxDataRows, titles : 0..MaxDataRows, salaries : 0..MaxDataRows,
            dept_emp : 0..MaxDataRows, departments : 0..MaxDataRows,
            dept_manager : 0..MaxDataRows] :
        TotalRows(l) <= MaxDataRows}

DataSources ==
    UNION {[employees : [1..l.employees -> DataEmployeeRows],
            titles : [1..l.titles -> DataTitleRows],
            salaries : [1..l.salaries -> DataSalaryRows],
            dept_emp : [1..l.dept_emp -> DataDeptEmpRows],
            departments : [1..l.departments -> DepartmentRows],
            dept_manager : [1..l.dept_manager -> DataDeptManagerRows]] : l \in DataTableSizes}

\* A first run over one of these sources into an empty destination.
InitData ==
    /\ variant \in {"etl", "main"}
    /\ source \in DataSources
    /\ batch_size = (IF variant = "main" THEN MaxBatchSize ELSE 0)
    /\ db = EmptyDb
    /\ db0 = db
    /\ nextId = FirstId
    /\ faults = {}
    /\ runs = 1
    /\ ProcessStart

SpecData == InitData /\ [][Next]_vars

\* Indexes of the rows of emp_no in a table.
RowsOf(rows, emp_no) == {i \in 1..Len(rows) : rows[i].emp_no = emp_no}

\* The documents of the output whose emp_no is emp_no.
DocsOf(emp_no) == {d \in 1..Len(docs.employees) : docs.employees[d].emp_no = emp_no}

(***************************************************************************)
(* C11                                                                     *)
(***************************************************************************)
\* The rows of a child table that carry emp_no, in source order.
ChildRows(rows, emp_no) == SelectSeq(rows, LAMBDA r : r.emp_no = emp_no)

\* A row of titles, salaries or dept_emp whose emp_no no employee row has.
Orphans ==
    {r \in {data.titles[i] : i \in 1..Len(data.titles)}
            \cup {data.salaries[i] : i \in 1..Len(data.salaries)}
            \cup {data.dept_emp[i] : i \in 1..Len(data.dept_emp)} :
        RowsOf(data.employees, r.emp_no) = {}}

\* C11: once the transformation is over, no document has the emp_no of a
\* child row without an employee row, every document has the emp_no of an
\* employee row, and the titles, salaries and departments embedded in the
\* document of emp_no e are, one for one and in source order, the title,
\* salary and dept_emp rows whose emp_no is e.
C11_OrphanRowsDropped ==
    TransformDone =>
        /\ \A r \in Orphans : DocsOf(r.emp_no) = {}
        /\ \A d \in 1..Len(docs.employees) :
              LET doc == docs.employees[d]
                  tit == ChildRows(data.titles, doc.emp_no)
                  sal == ChildRows(data.salaries, doc.emp_no)
                  dep == ChildRows(data.dept_emp, doc.emp_no)
              IN /\ RowsOf(data.employees, doc.emp_no) # {}
                 /\ [j \in 1..Len(doc.titles) |-> doc.titles[j].title] =
                        [j \in 1..Len(tit) |-> tit[j].title]
                 /\ [j \in 1..Len(doc.salaries) |-> doc.salaries[j].salary] =
                        [j \in 1..Len(sal) |-> sal[j].salary]
                 /\ [j \in 1..Len(doc.departments) |-> doc.departments[j].dept_no] =
                        [j \in 1..Len(dep) |-> dep[j].dept_no]

\* The transformation is over for a source with an employee row, a
\* department assignment of that employee and a department assignment of an
\* emp_no that has no employee row: the document embeds the first only.
C11_Witness ==
    /\ TransformDone
    /\ Len(docs.employees) = 1
    /\ Len(data.dept_emp) = 2
    /\ \E r \in Orphans : r \in {data.dept_emp[i] : i \in 1..Len(data.dept_emp)}
    /\ Len(docs.employees[1].departments) = 1

(***************************************************************************)
(* C12                                                                     *)
(***************************************************************************)
\* The last row of emp_no in the employees table.
LastRow(emp_no) == data.employees[CHOOSE i \in RowsOf(data.employees, emp_no) :
                                      \A j \in RowsOf(data.employees, emp_no) : j <= i]

\* C12: once the transformation is over, the output holds exactly one
\* document for every emp_no that an employee row has, none for any other
\* emp_no, and the document of an emp_no carries first_name, last_name and
\* gender of the last employee row of that emp_no.
C12_OneDocumentPerEmpNo ==
    TransformDone =>
        /\ \A d \in 1..Len(docs.employees) :
              RowsOf(data.employees, docs.employees[d].emp_no) # {}
        /\ \A i \in 1..Len(data.employees) :
              LET e == data.employees[i].emp_no
              IN /\ Cardinality(DocsOf(e)) = 1
                 /\ \A d \in DocsOf(e) :
                       /\ docs.employees[d].first_name = LastRow(e).first_name
                       /\ docs.employees[d].last_name = LastRow(e).last_name
                       /\ docs.employees[d].gender = LastRow(e).gender

(***************************************************************************)
(* C13                                                                     *)
(***************************************************************************)
\* What a reader of the document gets for its management field: a document
\* without the field reads as null.
ManagementOf(doc) == IF "management" \in DOMAIN doc THEN doc.management ELSE None

\* C13: once the transformation is over, the management field of the
\* document of an employee with two or more management rows is the mapping
\* of the first of these rows in source order (its dept_no and its two
\* normalized dates), and the management field of the document of an
\* employee with no management row is null.
C13_FirstManagementRow ==
    TransformDone =>
        \A d \in 1..Len(docs.employees) :
            LET doc == docs.employees[d]
                mgr == ChildRows(data.dept_manager, doc.emp_no)
            IN /\ Len(mgr) >= 2 =>
                    ManagementOf(doc) = [dept_no |-> mgr[1].dept_no,
                                         from_date |-> Normalized(mgr[1].from_date),
                                         to_date |-> Normalized(mgr[1].to_date)]
               /\ Len(mgr) = 0 => ManagementOf(doc) = None

(***************************************************************************)
(* C14                                                                     *)
(***************************************************************************)
\* No row of the departments table has dept_no.
NotInLookup(dept_no) ==
    \A k \in 1..Len(data.departments) : data.departments[k].dept_no # dept_no

\* C14: once the transformation is over, every employee row whose mapping
\* did not fail on a date has a document; the departments of a document
\* are as many as the dept_emp rows of its emp_no; and the entry of a
\* dept_emp row whose dept_no is in no row of the departments table has that
\* dept_no and the dept_name "Unknown".
C14_UnknownDepartment ==
    TransformDone =>
        \A i \in 1..Len(data.employees) :
            LET r == data.employees[i]
                dep == ChildRows(data.dept_emp, r.emp_no)
            IN ~(variant = "main" /\ MappingFails(r)) =>
                  /\ DocsOf(r.emp_no) # {}
                  /\ \A d \in DocsOf(r.emp_no) :
                        LET entries == docs.employees[d].departments
                        IN /\ Len(entries) = Len(dep)
                           /\ \A j \in 1..Len(dep) :
                                 NotInLookup(dep[j].dept_no) =>
                                    /\ entries[j].dept_no = dep[j].dept_no
                                    /\ "dept_name" \in DOMAIN entries[j]
                                    /\ entries[j].dept_name = "Unknown"

====
